---- MODULE Spec2Model ----
(***************************************************************************)
(* whisper-paste: the hotkey-driven session controller (src/main.rs), the  *)
(* capture primitive (src/audio.rs) and the overlay's accesses to the      *)
(* shared AppState (src/overlay.rs), as interleaved threads.               *)
(*                                                                         *)
(* Threads: the hotkey loop, the overlay (UI) thread, and per session s    *)
(* the session-orchestration thread, the waveform broadcaster, the stop    *)
(* watcher and the audio backend's callback.  One action is one access to  *)
(* shared memory together with the thread-local work around it.            *)
(***************************************************************************)
EXTENDS Integers, Sequences, FiniteSets, TLC

\* ---------------------------------------------------------------- bounds
MaxSessions == 2      \* sessions whose threads exist at the same time
MaxSamples == 1       \* mono samples one capture receives from the device
MaxTime == 1200       \* milliseconds of the hotkey loop's clock that are followed
SlowTick == 480       \* milliseconds a poll tick may take when it overruns its sleep
SmallBatch == 1000    \* frames in a small batch handed to the audio callback
LargeBatch == 2049    \* frames in a batch larger than the waveform window
MaxCaptured == 4100   \* frames one capture receives when its buffers are followed
MaxErrors == 2        \* stream errors one capture reports when its end is followed
MaxLen == 2           \* length of the short inputs of the audio functions
ExactLen == 480       \* a longer input: 480 samples of 48000 Hz are 441 of 44100 Hz
ScenarioLen == 900    \* a longer input: 900 samples of 48000 Hz are 300 of 16000 Hz

\* ------------------------------------------------------ program constants
STATUS_IDLE == 0
STATUS_RECORDING == 1
STATUS_TRANSCRIBING == 2
STATUS_RESULT == 3
TARGET_SAMPLE_RATE == 16000
WAVEFORM_SIZE == 2048
DEBOUNCE_MS == 500
POLL_MS == 30
I16_MAX == 32767
I16_MIN == -32768
BITS_PER_SAMPLE == 16
WAV_CHANNELS == 1
\* amplitudes are fixed-point: the f32 sample a / AmpUnit is the integer a
AmpUnit == 2

Sessions == 1..MaxSessions
\* the texts the transcription service may return: empty, or some speech
Texts == {"", "hello world"}
\* native configurations of the default input device
NativeConfigs == {[rate |-> 16000, channels |-> 1], [rate |-> 48000, channels |-> 2]}
NoConfig == [rate |-> 0, channels |-> 0]

VARIABLES
    \* AppState (overlay.rs:5-12)
    status, waveform, stop_signal, last_result,
    \* hotkey_loop locals (main.rs:123-136)
    h_pc, hotkey_held, h_status,
    \* per session: the three threads' positions
    spc, bpc, wpc,
    \* per session: record_until_stopped's state (audio.rs)
    stop, stream, native, samples, wf, cb,
    \* per session: the transcription text held by the session thread
    text,
    \* per session, history: Status values the session thread stored,
    \* transcription calls made, texts handed to paste, texts stored in
    \* last_result
    stores, transcribe_calls, paste_calls, result_writes,
    \* per session, history: how the session went ("none" while undecided)
    outcome,
    \* the overlay thread's position in OverlayApp::update
    ui_pc,
    \* history: a stop request was made while Status was Recording, and Status
    \* has been Recording ever since
    stop_req,
    \* per session, history: the session's paste call returned Err
    paste_err,
    \* per session, history: mono samples the callback has produced so far
    delivered,
    \* hotkey_loop's clock: the time of the current poll tick and last_toggle
    \* (main.rs:124, 132-134), in milliseconds since the loop started
    now, last_toggle,
    \* history of the poll ticks: the accepted toggle before the last one, the
    \* key state seen on the last tick and on the tick before it, poll ticks
    \* since the last accepted toggle, ticks between the last two accepted
    \* toggles, accepted toggles so far
    prev_toggle, key_now, key_prev, ticks, tick_gap, n_toggles,
    \* the audio functions applied to one input: the samples and the rates
    \* handed to resample, its output, the bytes samples_to_wav makes of that
    \* output, and how far the pipeline has got
    f_in, f_from, f_to, f_out, f_wav, f_pc,
    \* per session, history: errors the stream has reported to its error
    \* callback (audio.rs:60)
    stream_errors,
    \* whether the history of the stop requests is kept: the three variables
    \* that follow
    follow_stop,
    \* history: the overlay's current frame loaded Status before the latest
    \* start toggle stored Recording
    ui_stale,
    \* history: stop_signal is true only because of a click made in such a
    \* frame
    stale_req,
    \* history: the session the latest start toggle spawned (0: none yet)
    latest,
    \* history: the text of the latest transcription that returned speech
    last_text,
    \* the thread that holds each mutex, and the mutex each thread has asked
    \* for and not yet been given
    owner,
    wants

shared == <<status, waveform, stop_signal, last_result>>
hvars == <<h_pc, hotkey_held, h_status>>
tvars == <<spc, bpc, wpc>>
avars == <<stop, stream, native, samples, wf, cb>>
svars == <<text, stores, transcribe_calls, paste_calls, result_writes, outcome>>
uvars == <<ui_pc>>
dvars == <<now, last_toggle, prev_toggle, key_now, key_prev, ticks, tick_gap, n_toggles>>
fvars == <<f_in, f_from, f_to, f_out, f_wav, f_pc>>
yvars == <<stream_errors, follow_stop, ui_stale, stale_req, latest, last_text>>
lvars == <<owner, wants>>
xvars == <<paste_err, delivered, dvars, fvars, yvars, lvars>>
vars == <<shared, hvars, tvars, avars, svars, uvars, stop_req, xvars>>

\* ------------------------------------------------------------ threads and mutexes
\* The threads that lock a mutex: the hotkey thread (main.rs:145), the
\* overlay (overlay.rs:312, 396) and, per session, the audio callback
\* (audio.rs:48, 52), the broadcaster (main.rs:165-166) and the session
\* thread (audio.rs:75, main.rs:207).
Hotkey == [kind |-> "hotkey", s |-> 0]
Ui == [kind |-> "ui", s |-> 0]
Callback(s) == [kind |-> "callback", s |-> s]
Broadcaster(s) == [kind |-> "broadcaster", s |-> s]
Session(s) == [kind |-> "session", s |-> s]
NoThread == [kind |-> "none", s |-> 0]

Threads ==
    {Hotkey, Ui} \cup {Callback(s) : s \in Sessions}
                 \cup {Broadcaster(s) : s \in Sessions}
                 \cup {Session(s) : s \in Sessions}

\* The mutexes: the full-resolution buffer (audio.rs:33) and the sink
\* (main.rs:155) of each session, AppState::waveform and AppState::last_result
\* (overlay.rs:8, 11).
Samples(s) == [kind |-> "samples", s |-> s]
Sink(s) == [kind |-> "sink", s |-> s]
SharedWaveform == [kind |-> "waveform", s |-> 0]
LastResult == [kind |-> "last_result", s |-> 0]
NoLock == [kind |-> "none", s |-> 0]

Locks ==
    {SharedWaveform, LastResult} \cup {Samples(s) : s \in Sessions}
                                 \cup {Sink(s) : s \in Sessions}

\* ------------------------------------------------------------ audio.rs
\* Mix down to mono: one frame of `channels` equal-width samples is averaged.
RECURSIVE SumSeq(_)
SumSeq(q) == IF q = <<>> THEN 0 ELSE Head(q) + SumSeq(Tail(q))

Mono(data, channels) ==
    IF channels > 1
    THEN [i \in 1..((Len(data) + channels - 1) \div channels) |->
            LET last == IF i * channels < Len(data) THEN i * channels ELSE Len(data)
            IN SumSeq(SubSeq(data, (i - 1) * channels + 1, last)) \div channels]
    ELSE data

\* FeedWaveform with a seeded fault: the excess is never drained.
FeedWaveform_NoDrain(sink, mono) == sink \o mono

\* wf.extend_from_slice(&mono); drain the excess over WAVEFORM_SIZE
FeedWaveform(sink, mono) ==
    LET w == sink \o mono
    IN IF Len(w) > WAVEFORM_SIZE
       THEN SubSeq(w, Len(w) - WAVEFORM_SIZE + 1, Len(w))
       ELSE w

\* ---- f64 arithmetic (audio.rs:93-94).  A positive f64 is m * 2^(e - 52)
\* with a 53-bit mantissa m, kept in two limbs of 27 bits: m = hi * LIMB + lo.
LIMB == 134217728

\* 2 * r + bit on two limbs
ShiftIn(r, bit) ==
    LET lo2 == 2 * r.lo + bit
    IN [hi |-> 2 * r.hi + (lo2 \div LIMB), lo |-> lo2 % LIMB]

LimbGeq(r, m) == r.hi > m.hi \/ (r.hi = m.hi /\ r.lo >= m.lo)

LimbSub(r, m) ==
    IF r.lo >= m.lo
    THEN [hi |-> r.hi - m.hi, lo |-> r.lo - m.lo]
    ELSE [hi |-> r.hi - m.hi - 1, lo |-> r.lo + LIMB - m.lo]

\* The one element of a singleton set.  Only({F(x) : x \in {e}}) is F(e)
\* with e evaluated once, however often F uses it.
Only(S) == CHOOSE x \in S : TRUE

\* a / b = (a' / b') * 2^e with 1 <= a' / b' < 2
RECURSIVE Normalise(_, _, _)
Normalise(a, b, e) ==
    IF a >= 2 * b THEN Normalise(a, 2 * b, e + 1)
    ELSE IF a < b THEN Normalise(2 * a, b, e - 1)
    ELSE [a |-> a, b |-> b, e |-> e]

\* one more bit of (m + r / b); k counts the bits still wanted
QuotStep(b, st) ==
    Only({IF s.k = 0 THEN s
          ELSE IF 2 * s.r >= b
          THEN [m |-> ShiftIn(s.m, 1), r |-> 2 * s.r - b, k |-> s.k - 1]
          ELSE [m |-> ShiftIn(s.m, 0), r |-> 2 * s.r, k |-> s.k - 1] : s \in {st}})

RECURSIVE QuotBits(_, _)
QuotBits(b, st) ==
    Only({IF s.k = 0 THEN s
          ELSE QuotBits(b, QuotStep(b, QuotStep(b, QuotStep(b, QuotStep(b, s))))) :
          s \in {st}})

\* the quotient q of 53 bits and its remainder, rounded to nearest, ties to
\* even
RoundMantissa(n, q) ==
    LET guard == 2 * q.r >= n.b
        sticky == (IF guard THEN 2 * q.r - n.b ELSE 2 * q.r) # 0
        up == guard /\ (sticky \/ q.m.lo % 2 = 1)
    IN IF ~up THEN [m |-> q.m, e |-> n.e]
       ELSE IF q.m.lo + 1 < LIMB THEN [m |-> [hi |-> q.m.hi, lo |-> q.m.lo + 1], e |-> n.e]
       ELSE IF q.m.hi + 1 = LIMB \div 2 THEN [m |-> [hi |-> LIMB \div 4, lo |-> 0], e |-> n.e + 1]
       ELSE [m |-> [hi |-> q.m.hi + 1, lo |-> 0], e |-> n.e]

\* from_rate as f64 / to_rate as f64
F64Ratio(from_rate, to_rate) ==
    Only({Only({RoundMantissa(n, q) :
                q \in {QuotBits(n.b, [m |-> [hi |-> 0, lo |-> 1], r |-> n.a - n.b, k |-> 52])}}) :
          n \in {Normalise(from_rate, to_rate, 0)}})

\* one step of the long division of n * 2^z by m: bit i of the dividend is
\* brought down
DivStep(n, z, m, st) ==
    Only({IF s.i < 0 THEN s
          ELSE Only({IF LimbGeq(r2, m)
                     THEN [r |-> LimbSub(r2, m), q |-> 2 * s.q + 1, i |-> s.i - 1]
                     ELSE [r |-> r2, q |-> 2 * s.q, i |-> s.i - 1] :
                     r2 \in {ShiftIn(s.r, IF s.i >= z THEN (n \div (2 ^ (s.i - z))) % 2 ELSE 0)}}) :
          s \in {st}})

\* the integer part of n * 2^z / m, and the remainder
RECURSIVE IntPart(_, _, _, _)
IntPart(n, z, m, st) ==
    Only({IF s.i < 0 THEN s
          ELSE IntPart(n, z, m,
                  DivStep(n, z, m, DivStep(n, z, m, DivStep(n, z, m, DivStep(n, z, m,
                  DivStep(n, z, m, DivStep(n, z, m, DivStep(n, z, m, DivStep(n, z, m, s))))))))) :
          s \in {st}})

\* one more bit of the quotient behind the binary point: it is a one
FracStep(m, st) ==
    Only({IF s.k = 0 \/ ~s.ones THEN s
          ELSE Only({IF LimbGeq(r2, m)
                     THEN [r |-> LimbSub(r2, m), ones |-> TRUE, k |-> s.k - 1]
                     ELSE [r |-> r2, ones |-> FALSE, k |-> s.k - 1] :
                     r2 \in {ShiftIn(s.r, 0)}}) :
          s \in {st}})

\* the next k bits of the quotient are all ones
RECURSIVE FracOnes(_, _)
FracOnes(m, st) ==
    Only({IF s.k = 0 \/ ~s.ones THEN s.ones
          ELSE FracOnes(m,
                  FracStep(m, FracStep(m, FracStep(m, FracStep(m,
                  FracStep(m, FracStep(m, FracStep(m, FracStep(m, s))))))))) :
          s \in {st}})

RECURSIVE BitLen(_)
BitLen(q) == IF q = 0 THEN 0 ELSE 1 + BitLen(q \div 2)

\* the f64 quotient of n by ratio, cast to usize: with ip the integer part
\* and remainder of the exact quotient, the f64 quotient rounds up to the next
\* integer exactly when the bits that follow the 53 kept ones begin with
\* enough ones; the cast truncates.
QuotToUsize(n, ratio) ==
    Only({IF FracOnes(ratio.m, [r |-> ip.r, ones |-> TRUE, k |-> 54 - BitLen(ip.q)])
          THEN ip.q + 1
          ELSE ip.q :
          ip \in {IntPart(n, 52 - ratio.e, ratio.m,
                          [r |-> [hi |-> 0, lo |-> 0], q |-> 0,
                           i |-> BitLen(n) - 1 + 52 - ratio.e])}})

\* (n as f64 / (from_rate as f64 / to_rate as f64)) as usize
F64QuotToUsize(n, from_rate, to_rate) ==
    Only({QuotToUsize(len, ratio) :
          len \in {n}, ratio \in {F64Ratio(from_rate, to_rate)}})

\* OutLen with a seeded fault: the ratio is taken the wrong way round.
OutLen_Inverted(n, from_rate, to_rate) == F64QuotToUsize(n, to_rate, from_rate)

\* let ratio = from_rate as f64 / to_rate as f64;
\* let out_len = (samples.len() as f64 / ratio) as usize (audio.rs:93-94)
OutLen(n, from_rate, to_rate) == F64QuotToUsize(n, from_rate, to_rate)

\* resample with a seeded fault: the early return hands back an empty
\* vector.
resample_ReturnsEmpty(s, from_rate, to_rate) ==
    IF s = <<>> \/ from_rate = to_rate
    THEN <<>>
    ELSE [k \in 1..OutLen(Len(s), from_rate, to_rate) |-> s[1]]

\* Linear interpolation resampler.  Amplitudes are fixed-point integers.
\* src_idx = i * ratio is kept exact as (i * from_rate) / to_rate: where the
\* f64 product falls on the other side of an integer, frac is within 2^-52 of
\* 0 or 1 and the interpolated value is the same sample.
resample(s, from_rate, to_rate) ==
    IF s = <<>> \/ from_rate = to_rate
    THEN s
    ELSE LET out_len == OutLen(Len(s), from_rate, to_rate)
         IN [k \in 1..out_len |->
               LET i == k - 1
                   idx == (i * from_rate) \div to_rate
                   r == (i * from_rate) % to_rate
               IN IF idx + 1 < Len(s)
                  THEN (s[idx + 1] * (to_rate - r) + s[idx + 2] * r) \div to_rate
                  ELSE s[(IF idx < Len(s) - 1 THEN idx ELSE Len(s) - 1) + 1]]

\* ---- samples_to_wav (audio.rs:113-130) and the WAV file hound writes
\* for a 16-bit PCM WavSpec: a 44-byte RIFF header, then the samples as
\* little-endian i16.
RIFF == <<82, 73, 70, 70>>
WAVE == <<87, 65, 86, 69>>
FMT == <<102, 109, 116, 32>>
DATA == <<100, 97, 116, 97>>

LE16(u) == <<u % 256, (u \div 256) % 256>>

LE32(u) == <<u % 256, (u \div 256) % 256, (u \div 65536) % 256, (u \div 16777216) % 256>>

\* PcmSample with a seeded fault: the cast wraps instead of clamping.
PcmSample_Wrapping(a) ==
    LET x == a * I16_MAX
        v == IF x >= 0 THEN x \div AmpUnit ELSE -((-x) \div AmpUnit)
    IN ((v - I16_MIN) % 65536) + I16_MIN

\* (s * i16::MAX as f32).clamp(i16::MIN as f32, i16::MAX as f32) as i16
\* (audio.rs:124); the cast truncates towards zero
PcmSample(a) ==
    LET x == a * I16_MAX
    IN IF x >= I16_MAX * AmpUnit THEN I16_MAX
       ELSE IF x <= I16_MIN * AmpUnit THEN I16_MIN
       ELSE IF x >= 0 THEN x \div AmpUnit
       ELSE -((-x) \div AmpUnit)

\* writer.write_sample(val) for every sample: two bytes each, low byte first
PcmBytes(s) ==
    [i \in 1..(2 * Len(s)) |->
        LET u == (PcmSample(s[(i + 1) \div 2]) + 65536) % 65536
        IN IF i % 2 = 1 THEN u % 256 ELSE u \div 256]

\* the header WavWriter has written once it is finalized
WavHeader(data_len) ==
    LET block == WAV_CHANNELS * (BITS_PER_SAMPLE \div 8)
    IN RIFF \o LE32(36 + data_len) \o WAVE
       \o FMT \o LE32(16) \o LE16(1) \o LE16(WAV_CHANNELS)
       \o LE32(TARGET_SAMPLE_RATE) \o LE32(TARGET_SAMPLE_RATE * block)
       \o LE16(block) \o LE16(BITS_PER_SAMPLE)
       \o DATA \o LE32(data_len)

\* samples_to_wav with a seeded fault: finalize is left out, so the lengths
\* in the header stay zero.
samples_to_wav_NoFinalize(s) == WavHeader(0) \o PcmBytes(s)

samples_to_wav(s) == WavHeader(2 * Len(s)) \o PcmBytes(s)

U16At(b, i) == b[i] + 256 * b[i + 1]

U32At(b, i) == b[i] + 256 * b[i + 1] + 65536 * b[i + 2] + 16777216 * b[i + 3]

\* hound::WavReader::new(..): spec() and len() (audio.rs:168-171), and the
\* samples it yields
WavRead(b) ==
    IF \/ Len(b) < 44
       \/ SubSeq(b, 1, 4) # RIFF
       \/ SubSeq(b, 9, 12) # WAVE
       \/ SubSeq(b, 13, 16) # FMT
       \/ SubSeq(b, 37, 40) # DATA
       \/ U32At(b, 41) > Len(b) - 44
    THEN [valid |-> FALSE, channels |-> 0, sample_rate |-> 0, len |-> 0, samples |-> <<>>]
    ELSE LET width == U16At(b, 35) \div 8
             n == U32At(b, 41) \div width
         IN [valid |-> TRUE,
             channels |-> U16At(b, 23),
             sample_rate |-> U32At(b, 25),
             len |-> n,
             samples |-> [i \in 1..n |->
                            LET u == U16At(b, 44 + 2 * i - 1)
                            IN IF u > I16_MAX THEN u - 65536 ELSE u]]

\* what record_until_stopped returns for the raw buffer
Captured(raw, cfg) ==
    IF cfg.rate # TARGET_SAMPLE_RATE
    THEN resample(raw, cfg.rate, TARGET_SAMPLE_RATE)
    ELSE raw

\* ------------------------------------------------------------ Init
\* hotkey_loop's clock starts with last_toggle = Instant::now() (main.rs:124)
ClockInit ==
    /\ now = 0
    /\ last_toggle = 0
    /\ prev_toggle = 0
    /\ key_now = FALSE
    /\ key_prev = FALSE
    /\ ticks = 0
    /\ tick_gap = 0
    /\ n_toggles = 0

\* nothing has happened yet
TraceInit ==
    /\ stream_errors = [s \in Sessions |-> 0]
    /\ ui_stale = FALSE
    /\ stale_req = FALSE
    /\ latest = 0
    /\ last_text = ""

\* Mutex::new: no mutex is held or asked for
LockInit ==
    /\ owner = [l \in Locks |-> NoThread]
    /\ wants = [t \in Threads |-> NoLock]

\* no audio function is being followed
FnIdle ==
    /\ f_in = <<>>
    /\ f_from = TARGET_SAMPLE_RATE
    /\ f_to = TARGET_SAMPLE_RATE
    /\ f_out = <<>>
    /\ f_wav = <<>>
    /\ f_pc = "idle"

\* AppState::new and the threads' locals before the first poll
AppInit ==
    /\ status = STATUS_IDLE
    /\ waveform = <<>>
    /\ stop_signal = FALSE
    /\ last_result = ""
    /\ h_pc = "poll"
    /\ hotkey_held = FALSE
    /\ h_status = STATUS_IDLE
    /\ spc = [s \in Sessions |-> "none"]
    /\ bpc = [s \in Sessions |-> "none"]
    /\ wpc = [s \in Sessions |-> "none"]
    /\ stop = [s \in Sessions |-> FALSE]
    /\ stream = [s \in Sessions |-> FALSE]
    /\ native = [s \in Sessions |-> NoConfig]
    /\ samples = [s \in Sessions |-> <<>>]
    /\ wf = [s \in Sessions |-> <<>>]
    /\ cb = [s \in Sessions |-> <<>>]
    /\ text = [s \in Sessions |-> ""]
    /\ stores = [s \in Sessions |-> <<>>]
    /\ transcribe_calls = [s \in Sessions |-> 0]
    /\ paste_calls = [s \in Sessions |-> <<>>]
    /\ result_writes = [s \in Sessions |-> <<>>]
    /\ outcome = [s \in Sessions |-> "none"]
    /\ ui_pc = "read"
    /\ stop_req = FALSE
    /\ paste_err = [s \in Sessions |-> FALSE]
    /\ delivered = [s \in Sessions |-> 0]
    /\ ClockInit
    /\ TraceInit
    /\ LockInit

Init == AppInit /\ FnIdle /\ follow_stop = FALSE

\* ------------------------------------------------------------ session slots
\* A session occupies a slot from its spawn until its three threads have
\* ended; the next session takes the lowest free slot as a fresh session.
Ended(s) ==
    /\ spc[s] \in {"none", "done"}
    /\ bpc[s] \in {"none", "done"}
    /\ wpc[s] \in {"none", "done"}

FreeSlots == {s \in Sessions : Ended(s)}

NewSlot == CHOOSE s \in FreeSlots : \A r \in FreeSlots : s <= r

\* ------------------------------------------------------------ hotkey_loop
\* One poll iteration (main.rs:127-136, 235-239): `pressed` is the key
\* combination's state, `elapsed` whether last_toggle.elapsed() > 500ms.
\* An accepted toggle loads Status (main.rs:136).  A toggle that would
\* start a session is taken only while a session slot is free.
PollIteration(pressed, elapsed) ==
    /\ h_pc = "poll"
    /\ IF pressed /\ ~hotkey_held /\ elapsed
       THEN /\ status \in {STATUS_IDLE, STATUS_RESULT} => FreeSlots # {}
            /\ hotkey_held' = TRUE
            /\ h_status' = status
            /\ h_pc' = "dispatch"
       ELSE /\ hotkey_held' = (hotkey_held /\ pressed)
            /\ UNCHANGED <<h_status, h_pc>>
    /\ UNCHANGED <<shared, tvars, avars, svars, uvars, stop_req>>

\* the poll iteration with the debounce test left open
HotkeyPoll(pressed, elapsed) ==
    /\ PollIteration(pressed, elapsed)
    /\ UNCHANGED xvars

\* the duration of one poll iteration: the 30 ms sleep (main.rs:239), or
\* longer when the thread is scheduled late
TickLengths == {POLL_MS, SlowTick}

\* HotkeyTick with a seeded fault: the debounce test is dropped.
HotkeyTick_NoDebounce(pressed, dt) ==
    /\ now + dt <= MaxTime
    /\ now' = now + dt
    /\ PollIteration(pressed, TRUE)
    /\ key_prev' = key_now
    /\ key_now' = pressed
    /\ IF h_pc' = "dispatch"
       THEN /\ last_toggle' = now + dt
            /\ prev_toggle' = last_toggle
            /\ tick_gap' = ticks + 1
            /\ ticks' = 0
            /\ n_toggles' = n_toggles + 1
       ELSE /\ ticks' = ticks + 1
            /\ UNCHANGED <<last_toggle, prev_toggle, tick_gap, n_toggles>>
    /\ UNCHANGED <<paste_err, delivered, fvars, yvars, lvars>>

\* The poll iteration on the loop's clock: `dt` after the previous tick the
\* key state is read and last_toggle.elapsed() > 500 ms is evaluated
\* (main.rs:127-132); an accepted toggle sets last_toggle (main.rs:134).
HotkeyTick(pressed, dt) ==
    /\ now + dt <= MaxTime
    /\ now' = now + dt
    /\ PollIteration(pressed, (now + dt) - last_toggle > DEBOUNCE_MS)
    /\ key_prev' = key_now
    /\ key_now' = pressed
    /\ IF h_pc' = "dispatch"
       THEN /\ last_toggle' = now + dt
            /\ prev_toggle' = last_toggle
            /\ tick_gap' = ticks + 1
            /\ ticks' = 0
            /\ n_toggles' = n_toggles + 1
       ELSE /\ ticks' = ticks + 1
            /\ UNCHANGED <<last_toggle, prev_toggle, tick_gap, n_toggles>>
    /\ UNCHANGED <<paste_err, delivered, fvars, yvars, lvars>>

\* HotkeyIgnore with a seeded fault: Transcribing is handled like Recording.
HotkeyIgnore_RequestsStop ==
    /\ h_pc = "dispatch"
    /\ h_status = STATUS_TRANSCRIBING
    /\ stop_signal' = TRUE
    /\ h_pc' = "poll"
    /\ h_status' = STATUS_IDLE
    /\ UNCHANGED <<status, waveform, last_result, hotkey_held, tvars, avars, svars,
                   uvars, stop_req>>
    /\ UNCHANGED xvars

\* status == STATUS_TRANSCRIBING: ignore (main.rs:138-139)
HotkeyIgnore ==
    /\ h_pc = "dispatch"
    /\ h_status = STATUS_TRANSCRIBING
    /\ h_pc' = "poll"
    /\ h_status' = STATUS_IDLE
    /\ UNCHANGED <<shared, hotkey_held, tvars, avars, svars, uvars, stop_req>>
    /\ UNCHANGED xvars

\* HotkeyStart with a seeded fault: only Idle starts a recording, Result is ignored.
HotkeyStart_IdleOnly ==
    /\ h_pc = "dispatch"
    /\ h_status \in {STATUS_IDLE, STATUS_RESULT}
    /\ IF h_status = STATUS_IDLE
       THEN /\ status' = STATUS_RECORDING
            /\ h_pc' = "clear_stop"
            /\ h_status' = h_status
       ELSE /\ status' = status
            /\ h_pc' = "poll"
            /\ h_status' = STATUS_IDLE
    /\ UNCHANGED <<waveform, stop_signal, last_result, hotkey_held,
                   tvars, avars, svars, uvars, stop_req>>
    /\ ui_stale' = (follow_stop /\ (ui_stale \/ ui_pc \in {"draw_rec", "rec_locked"}))
    /\ latest' = 0
    /\ UNCHANGED <<paste_err, delivered, dvars, fvars, stream_errors, follow_stop, lvars,
                   stale_req, last_text>>

\* status == STATUS_IDLE || STATUS_RESULT: store Recording (main.rs:140-142)
HotkeyStart ==
    /\ h_pc = "dispatch"
    /\ h_status \in {STATUS_IDLE, STATUS_RESULT}
    /\ status' = STATUS_RECORDING
    /\ h_pc' = "clear_stop"
    /\ UNCHANGED <<waveform, stop_signal, last_result, hotkey_held, h_status,
                   tvars, avars, svars, uvars, stop_req>>
    /\ ui_stale' = (follow_stop /\ (ui_stale \/ ui_pc \in {"draw_rec", "rec_locked"}))
    /\ latest' = 0
    /\ UNCHANGED <<paste_err, delivered, dvars, fvars, stream_errors, follow_stop, lvars,
                   stale_req, last_text>>

\* state.stop_signal.store(false) (main.rs:143)
HotkeyClearStop ==
    /\ h_pc = "clear_stop"
    /\ stop_signal' = FALSE
    /\ h_pc' = "clear_wf"
    /\ UNCHANGED <<status, waveform, last_result, hotkey_held, h_status,
                   tvars, avars, svars, uvars, stop_req>>
    /\ stale_req' = FALSE
    /\ wants' = [wants EXCEPT ![Hotkey] = SharedWaveform]
    /\ UNCHANGED <<paste_err, delivered, dvars, fvars, stream_errors, follow_stop,
                   latest, ui_stale, last_text, owner>>

\* state.waveform.lock().unwrap().clear(), then spawn the session thread
\* (main.rs:145-152).  The lock is held by the overlay while it draws.
HotkeySpawn ==
    /\ h_pc = "clear_wf"
    /\ ui_pc # "rec_locked"
    /\ waveform' = <<>>
    /\ LET s == NewSlot
       IN /\ spc' = [spc EXCEPT ![s] = "spawned"]
          /\ bpc' = [bpc EXCEPT ![s] = "none"]
          /\ wpc' = [wpc EXCEPT ![s] = "none"]
          /\ stop' = [stop EXCEPT ![s] = FALSE]
          /\ wf' = [wf EXCEPT ![s] = <<>>]
          /\ text' = [text EXCEPT ![s] = ""]
          /\ stores' = [stores EXCEPT ![s] = <<>>]
          /\ transcribe_calls' = [transcribe_calls EXCEPT ![s] = 0]
          /\ paste_calls' = [paste_calls EXCEPT ![s] = <<>>]
          /\ result_writes' = [result_writes EXCEPT ![s] = <<>>]
          /\ outcome' = [outcome EXCEPT ![s] = "none"]
    /\ h_pc' = "poll"
    /\ h_status' = STATUS_IDLE
    /\ UNCHANGED <<status, stop_signal, last_result, hotkey_held, stream,
                   native, samples, cb, uvars, stop_req>>
    /\ paste_err' = [paste_err EXCEPT ![NewSlot] = FALSE]
    /\ delivered' = [delivered EXCEPT ![NewSlot] = 0]
    /\ latest' = IF follow_stop THEN NewSlot ELSE latest
    /\ owner[SharedWaveform] = NoThread
    /\ wants' = [wants EXCEPT ![Hotkey] = NoLock]
    /\ UNCHANGED <<dvars, fvars, stream_errors, follow_stop, ui_stale, stale_req,
                   last_text, owner>>

\* HotkeyRequestStop with a seeded fault: the toggle also puts Status back to Idle.
HotkeyRequestStop_SetsIdle ==
    /\ h_pc = "dispatch"
    /\ h_status = STATUS_RECORDING
    /\ stop_signal' = TRUE
    /\ status' = STATUS_IDLE
    /\ h_pc' = "poll"
    /\ h_status' = STATUS_IDLE
    /\ stop_req' = FALSE
    /\ UNCHANGED <<waveform, last_result, hotkey_held, tvars, avars, svars, uvars>>
    /\ stale_req' = FALSE
    /\ UNCHANGED <<paste_err, delivered, dvars, fvars, stream_errors, follow_stop, lvars, latest, ui_stale, last_text>>

\* status == STATUS_RECORDING: request stop (main.rs:228-231)
HotkeyRequestStop ==
    /\ h_pc = "dispatch"
    /\ h_status = STATUS_RECORDING
    /\ stop_signal' = TRUE
    /\ h_pc' = "poll"
    /\ h_status' = STATUS_IDLE
    /\ stop_req' = (status = STATUS_RECORDING)
    /\ UNCHANGED <<status, waveform, last_result, hotkey_held,
                   tvars, avars, svars, uvars>>
    /\ stale_req' = FALSE
    /\ UNCHANGED <<paste_err, delivered, dvars, fvars, stream_errors, follow_stop, lvars, latest, ui_stale, last_text>>

\* ------------------------------------------------------------ session thread
\* The session thread spawns its broadcaster and its stop watcher
\* (main.rs:155-185) before it calls record_until_stopped.
SessionSpawnHelpers(s) ==
    /\ spc[s] = "spawned"
    /\ spc' = [spc EXCEPT ![s] = "open"]
    /\ bpc' = [bpc EXCEPT ![s] = "check"]
    /\ wpc' = [wpc EXCEPT ![s] = "poll"]
    /\ UNCHANGED <<shared, hvars, avars, svars, uvars, stop_req>>
    /\ UNCHANGED xvars

\* record_until_stopped builds and starts the stream (audio.rs:14-67)
CaptureOpen(s, cfg) ==
    /\ spc[s] = "open"
    /\ native' = [native EXCEPT ![s] = cfg]
    /\ stream' = [stream EXCEPT ![s] = TRUE]
    /\ spc' = [spc EXCEPT ![s] = "capturing"]
    /\ UNCHANGED <<shared, hvars, bpc, wpc, stop, samples, wf, cb, svars, uvars, stop_req>>
    /\ UNCHANGED xvars

\* a device error (audio.rs:17, 22, 63, 67) returns Err; the session
\* thread stores Idle (main.rs:222-225)
CaptureFail(s) ==
    /\ spc[s] = "open"
    /\ status' = STATUS_IDLE
    /\ stores' = [stores EXCEPT ![s] = Append(@, STATUS_IDLE)]
    /\ spc' = [spc EXCEPT ![s] = "done"]
    /\ outcome' = [outcome EXCEPT ![s] = "device_error"]
    /\ stop_req' = FALSE
    /\ UNCHANGED <<waveform, stop_signal, last_result, hvars, bpc, wpc, avars,
                   text, transcribe_calls, paste_calls, result_writes, uvars>>
    /\ UNCHANGED xvars

\* CapturePoll with a seeded fault: a reported stream error also leaves the loop.
CapturePoll_OnError(s) ==
    /\ spc[s] = "capturing"
    /\ stop[s] \/ stream_errors[s] > 0
    /\ spc' = [spc EXCEPT ![s] = "stopping"]
    /\ UNCHANGED <<shared, hvars, bpc, wpc, avars, svars, uvars, stop_req>>
    /\ UNCHANGED xvars

\* while !stop.load() { sleep } (audio.rs:69-71)
CapturePoll(s) ==
    /\ spc[s] = "capturing"
    /\ stop[s]
    /\ spc' = [spc EXCEPT ![s] = "stopping"]
    /\ UNCHANGED <<shared, hvars, bpc, wpc, avars, svars, uvars, stop_req>>
    /\ UNCHANGED xvars

\* drop(stream), clone the raw buffer, resample, return (audio.rs:73-84);
\* drop waits for a callback in progress.
CaptureStop(s) ==
    /\ spc[s] = "stopping"
    /\ cb[s] = <<>>
    /\ stream' = [stream EXCEPT ![s] = FALSE]
    /\ samples' = [samples EXCEPT ![s] = Captured(@, native[s])]
    /\ native' = [native EXCEPT ![s] = NoConfig]
    /\ wf' = [wf EXCEPT ![s] = IF bpc[s] = "done" THEN <<>> ELSE @]
    /\ spc' = [spc EXCEPT ![s] = "captured"]
    /\ UNCHANGED <<shared, hvars, bpc, wpc, stop, cb, svars, uvars, stop_req>>
    /\ delivered' = [delivered EXCEPT ![s] = 0]
    /\ UNCHANGED <<paste_err, dvars, fvars, yvars, lvars>>

\* SessionEmpty with a seeded fault: the empty capture is sent on to transcription.
SessionEmpty_Transcribes(s) ==
    /\ spc[s] = "captured"
    /\ samples[s] = <<>>
    /\ status' = STATUS_TRANSCRIBING
    /\ stores' = [stores EXCEPT ![s] = Append(@, STATUS_TRANSCRIBING)]
    /\ transcribe_calls' = [transcribe_calls EXCEPT ![s] = @ + 1]
    /\ outcome' = [outcome EXCEPT ![s] = "empty_capture"]
    /\ spc' = [spc EXCEPT ![s] = "transcribing"]
    /\ stop_req' = FALSE
    /\ UNCHANGED <<waveform, stop_signal, last_result, hvars, bpc, wpc, avars,
                   text, paste_calls, result_writes, uvars>>
    /\ UNCHANGED xvars

\* samples.is_empty(): store Idle and return (main.rs:189-193)
SessionEmpty(s) ==
    /\ spc[s] = "captured"
    /\ samples[s] = <<>>
    /\ status' = STATUS_IDLE
    /\ stores' = [stores EXCEPT ![s] = Append(@, STATUS_IDLE)]
    /\ spc' = [spc EXCEPT ![s] = "done"]
    /\ outcome' = [outcome EXCEPT ![s] = "empty_capture"]
    /\ stop_req' = FALSE
    /\ UNCHANGED <<waveform, stop_signal, last_result, hvars, bpc, wpc, avars,
                   text, transcribe_calls, paste_calls, result_writes, uvars>>
    /\ UNCHANGED xvars

\* store Transcribing, encode, call the transcription service (main.rs:195-199)
SessionTranscribing(s) ==
    /\ spc[s] = "captured"
    /\ samples[s] # <<>>
    /\ status' = STATUS_TRANSCRIBING
    /\ stores' = [stores EXCEPT ![s] = Append(@, STATUS_TRANSCRIBING)]
    /\ transcribe_calls' = [transcribe_calls EXCEPT ![s] = @ + 1]
    /\ spc' = [spc EXCEPT ![s] = "transcribing"]
    /\ stop_req' = FALSE
    /\ UNCHANGED <<waveform, stop_signal, last_result, hvars, bpc, wpc, avars,
                   text, paste_calls, result_writes, outcome, uvars>>
    /\ UNCHANGED xvars

\* TranscribeErr with a seeded fault: a failed call is retried once.
TranscribeErr_Retry(s) ==
    /\ spc[s] = "transcribing"
    /\ IF transcribe_calls[s] < 2
       THEN /\ transcribe_calls' = [transcribe_calls EXCEPT ![s] = @ + 1]
            /\ UNCHANGED <<status, stores, samples, outcome, spc, stop_req>>
       ELSE /\ status' = STATUS_IDLE
            /\ stores' = [stores EXCEPT ![s] = Append(@, STATUS_IDLE)]
            /\ samples' = [samples EXCEPT ![s] = <<>>]
            /\ outcome' = [outcome EXCEPT ![s] = "transcribe_error"]
            /\ spc' = [spc EXCEPT ![s] = "done"]
            /\ stop_req' = FALSE
            /\ transcribe_calls' = transcribe_calls
    /\ UNCHANGED <<waveform, stop_signal, last_result, hvars, bpc, wpc, stop,
                   stream, native, wf, cb, text, paste_calls, result_writes, uvars>>
    /\ UNCHANGED xvars

\* the call returns Err(e): store Idle (main.rs:216-219)
TranscribeErr(s) ==
    /\ spc[s] = "transcribing"
    /\ status' = STATUS_IDLE
    /\ stores' = [stores EXCEPT ![s] = Append(@, STATUS_IDLE)]
    /\ samples' = [samples EXCEPT ![s] = <<>>]
    /\ spc' = [spc EXCEPT ![s] = "done"]
    /\ outcome' = [outcome EXCEPT ![s] = "transcribe_error"]
    /\ stop_req' = FALSE
    /\ UNCHANGED <<waveform, stop_signal, last_result, hvars, bpc, wpc, stop,
                   stream, native, wf, cb, text, transcribe_calls, paste_calls,
                   result_writes, uvars>>
    /\ UNCHANGED xvars

\* TranscribeEmpty with a seeded fault: the empty text is stored and pasted like any
\* other.
TranscribeEmpty_AsText(s) ==
    /\ spc[s] = "transcribing"
    /\ text' = [text EXCEPT ![s] = ""]
    /\ last_result' = ""
    /\ result_writes' = [result_writes EXCEPT ![s] = Append(@, "")]
    /\ samples' = [samples EXCEPT ![s] = <<>>]
    /\ outcome' = [outcome EXCEPT ![s] = "empty_text"]
    /\ spc' = [spc EXCEPT ![s] = "paste"]
    /\ UNCHANGED <<status, waveform, stop_signal, hvars, bpc, wpc, stop, stream,
                   native, wf, cb, stores, transcribe_calls, paste_calls, uvars,
                   stop_req>>
    /\ UNCHANGED xvars

\* the call returns Ok(""): store Idle (main.rs:201-203)
TranscribeEmpty(s) ==
    /\ spc[s] = "transcribing"
    /\ status' = STATUS_IDLE
    /\ stores' = [stores EXCEPT ![s] = Append(@, STATUS_IDLE)]
    /\ samples' = [samples EXCEPT ![s] = <<>>]
    /\ spc' = [spc EXCEPT ![s] = "done"]
    /\ outcome' = [outcome EXCEPT ![s] = "empty_text"]
    /\ stop_req' = FALSE
    /\ UNCHANGED <<waveform, stop_signal, last_result, hvars, bpc, wpc, stop,
                   stream, native, wf, cb, text, transcribe_calls, paste_calls,
                   result_writes, uvars>>
    /\ UNCHANGED xvars

\* the call returns Ok(t), t non-empty: store t in last_result (main.rs:205-207)
TranscribeText(s, t) ==
    /\ spc[s] = "transcribing"
    /\ t # ""
    /\ text' = [text EXCEPT ![s] = t]
    /\ last_result' = t
    /\ result_writes' = [result_writes EXCEPT ![s] = Append(@, t)]
    /\ samples' = [samples EXCEPT ![s] = <<>>]
    /\ spc' = [spc EXCEPT ![s] = "paste"]
    /\ outcome' = [outcome EXCEPT ![s] = "text"]
    /\ UNCHANGED <<status, waveform, stop_signal, hvars, bpc, wpc, stop, stream,
                   native, wf, cb, stores, transcribe_calls, paste_calls, uvars, stop_req>>
    /\ last_text' = t
    /\ UNCHANGED <<paste_err, delivered, dvars, fvars, stream_errors, follow_stop, lvars, latest, ui_stale, stale_req>>

\* The same two lines as two steps, for the order of the returns and the
\* stores of overlapping sessions: the call returns Ok(t), t non-empty
\* (main.rs:199-205) ...
TranscribeReturn(s, t) ==
    /\ spc[s] = "transcribing"
    /\ t # ""
    /\ text' = [text EXCEPT ![s] = t]
    /\ samples' = [samples EXCEPT ![s] = <<>>]
    /\ spc' = [spc EXCEPT ![s] = "store_text"]
    /\ outcome' = [outcome EXCEPT ![s] = "text"]
    /\ UNCHANGED <<shared, hvars, bpc, wpc, stop, stream, native, wf, cb, stores,
                   transcribe_calls, paste_calls, result_writes, uvars, stop_req>>
    /\ last_text' = t
    /\ UNCHANGED <<paste_err, delivered, dvars, fvars, stream_errors, follow_stop, lvars,
                   latest, ui_stale, stale_req>>

\* ... and the session thread locks last_result and stores the text (main.rs:207)
SessionStoreText(s) ==
    /\ spc[s] = "store_text"
    /\ last_result' = text[s]
    /\ result_writes' = [result_writes EXCEPT ![s] = Append(@, text[s])]
    /\ spc' = [spc EXCEPT ![s] = "paste"]
    /\ UNCHANGED <<status, waveform, stop_signal, hvars, bpc, wpc, avars, text,
                   stores, transcribe_calls, paste_calls, outcome, uvars, stop_req>>
    /\ UNCHANGED xvars

\* SessionPaste with a seeded fault: a failed paste is tried a second time.
SessionPaste_Retry(s, ok) ==
    /\ spc[s] = "paste"
    /\ paste_calls' = [paste_calls EXCEPT ![s] =
                          IF ok THEN Append(@, text[s]) ELSE Append(Append(@, text[s]), text[s])]
    /\ spc' = [spc EXCEPT ![s] = "set_result"]
    /\ UNCHANGED <<shared, hvars, bpc, wpc, avars, text, stores,
                   transcribe_calls, result_writes, outcome, uvars, stop_req>>
    /\ paste_err' = [paste_err EXCEPT ![s] = ~ok]
    /\ UNCHANGED <<delivered, dvars, fvars, yvars, lvars>>

\* SessionPaste with a seeded fault: a paste error ends the session in Idle.
SessionPaste_AbortOnErr(s, ok) ==
    /\ spc[s] = "paste"
    /\ paste_calls' = [paste_calls EXCEPT ![s] = Append(@, text[s])]
    /\ paste_err' = [paste_err EXCEPT ![s] = ~ok]
    /\ IF ok
       THEN /\ spc' = [spc EXCEPT ![s] = "set_result"]
            /\ UNCHANGED <<status, stores, stop_req>>
       ELSE /\ spc' = [spc EXCEPT ![s] = "done"]
            /\ status' = STATUS_IDLE
            /\ stores' = [stores EXCEPT ![s] = Append(@, STATUS_IDLE)]
            /\ stop_req' = FALSE
    /\ UNCHANGED <<waveform, stop_signal, last_result, hvars, bpc, wpc, avars, text,
                   transcribe_calls, result_writes, outcome, uvars>>
    /\ UNCHANGED <<delivered, dvars, fvars, yvars, lvars>>

\* paste::paste_text(&text); an Err is only logged (main.rs:209-211)
SessionPaste(s, ok) ==
    /\ spc[s] = "paste"
    /\ paste_calls' = [paste_calls EXCEPT ![s] = Append(@, text[s])]
    /\ spc' = [spc EXCEPT ![s] = "set_result"]
    /\ UNCHANGED <<shared, hvars, bpc, wpc, avars, text, stores,
                   transcribe_calls, result_writes, outcome, uvars, stop_req>>
    /\ paste_err' = [paste_err EXCEPT ![s] = ~ok]
    /\ UNCHANGED <<delivered, dvars, fvars, yvars, lvars>>

\* store Result (main.rs:213)
SessionResult(s) ==
    /\ spc[s] = "set_result"
    /\ status' = STATUS_RESULT
    /\ stores' = [stores EXCEPT ![s] = Append(@, STATUS_RESULT)]
    /\ spc' = [spc EXCEPT ![s] = "done"]
    /\ stop_req' = FALSE
    /\ UNCHANGED <<waveform, stop_signal, last_result, hvars, bpc, wpc, avars,
                   text, transcribe_calls, paste_calls, result_writes, outcome, uvars>>
    /\ UNCHANGED xvars

\* ------------------------------------------------------------ audio callback
\* the input callback mixes a batch to mono and appends it to the
\* full-resolution buffer (audio.rs:39-48)
\* CallbackBatch with a seeded fault: the full-resolution buffer is trimmed
\* like the waveform window.
CallbackBatch_Windowed(s, data) ==
    /\ stream[s]
    /\ cb[s] = <<>>
    /\ LET mono == Mono(data, native[s].channels)
       IN /\ samples' = [samples EXCEPT ![s] = FeedWaveform(@, mono)]
          /\ cb' = [cb EXCEPT ![s] = mono]
          /\ delivered' = [delivered EXCEPT ![s] = @ + Len(mono)]
    /\ wants' = [wants EXCEPT ![Callback(s)] = Sink(s)]
    /\ UNCHANGED <<shared, hvars, tvars, stop, stream, native, wf, svars, uvars, stop_req>>
    /\ UNCHANGED <<paste_err, dvars, fvars, yvars, owner>>

CallbackBatch(s, data) ==
    /\ stream[s]
    /\ cb[s] = <<>>
    /\ LET mono == Mono(data, native[s].channels)
       IN /\ samples' = [samples EXCEPT ![s] = @ \o mono]
          /\ cb' = [cb EXCEPT ![s] = mono]
          /\ delivered' = [delivered EXCEPT ![s] = @ + Len(mono)]
    /\ wants' = [wants EXCEPT ![Callback(s)] = Sink(s)]
    /\ UNCHANGED <<shared, hvars, tvars, stop, stream, native, wf, svars, uvars, stop_req>>
    /\ UNCHANGED <<paste_err, dvars, fvars, yvars, owner>>

\* a batch of one frame whose channels all carry v
CallbackDeliver(s, v) ==
    /\ Len(samples[s]) < MaxSamples
    /\ CallbackBatch(s, [i \in 1..native[s].channels |-> v])

\* ... and feeds the capture-local waveform sink under its lock, which the
\* broadcaster holds while it copies (audio.rs:51-58)
CallbackFeed(s) ==
    /\ cb[s] # <<>>
    /\ bpc[s] # "lock_dst"
    /\ owner[Sink(s)] = NoThread
    /\ wf' = [wf EXCEPT ![s] = FeedWaveform(@, cb[s])]
    /\ cb' = [cb EXCEPT ![s] = <<>>]
    /\ wants' = [wants EXCEPT ![Callback(s)] = NoLock]
    /\ UNCHANGED <<shared, hvars, tvars, stop, stream, native, samples, svars, uvars, stop_req>>
    /\ UNCHANGED <<paste_err, delivered, dvars, fvars, yvars, owner>>

\* ------------------------------------------------------------ broadcaster
\* while status == STATUS_RECORDING { let src = wf.lock() ... (main.rs:163-165).
\* The sink's lock is free whenever the callback is between two batches, so
\* the load and the lock are one step.  When the loop ends the thread drops
\* its handle of the sink.
BroadcasterCheck(s) ==
    /\ bpc[s] = "check"
    /\ IF status = STATUS_RECORDING
       THEN /\ bpc' = [bpc EXCEPT ![s] = "lock_dst"]
            /\ wf' = wf
            /\ owner' = [owner EXCEPT ![Sink(s)] = Broadcaster(s)]
            /\ wants' = [wants EXCEPT ![Broadcaster(s)] = SharedWaveform]
       ELSE /\ bpc' = [bpc EXCEPT ![s] = "done"]
            /\ wf' = [wf EXCEPT ![s] = IF stream[s] \/ spc[s] = "open" THEN @ ELSE <<>>]
            /\ UNCHANGED lvars
    /\ UNCHANGED <<shared, hvars, spc, wpc, stop, stream, native, samples, cb,
                   svars, uvars, stop_req>>
    /\ UNCHANGED <<paste_err, delivered, dvars, fvars, yvars>>

\* let mut dst = state_wf.waveform.lock(); clear; extend; unlock both; sleep
\* (main.rs:166-170)
BroadcasterCopy(s) ==
    /\ bpc[s] = "lock_dst"
    /\ ui_pc # "rec_locked"
    /\ owner[SharedWaveform] = NoThread
    /\ waveform' = wf[s]
    /\ bpc' = [bpc EXCEPT ![s] = "check"]
    /\ owner' = [owner EXCEPT ![Sink(s)] = NoThread]
    /\ wants' = [wants EXCEPT ![Broadcaster(s)] = NoLock]
    /\ UNCHANGED <<status, stop_signal, last_result, hvars, spc, wpc, avars,
                   svars, uvars, stop_req>>
    /\ UNCHANGED <<paste_err, delivered, dvars, fvars, yvars>>

\* ------------------------------------------------------------ stop watcher
\* while !stop_signal.load() { sleep }; stop_clone.store(true) (main.rs:180-185)
WatcherStop(s) ==
    /\ wpc[s] = "poll"
    /\ stop_signal
    /\ stop' = [stop EXCEPT ![s] = TRUE]
    /\ wpc' = [wpc EXCEPT ![s] = "done"]
    /\ UNCHANGED <<shared, hvars, spc, bpc, stream, native, samples, wf, cb,
                   svars, uvars, stop_req>>
    /\ UNCHANGED xvars

\* ------------------------------------------------------------ overlay
\* OverlayApp::update loads Status (overlay.rs:89).  `faded` stands for
\* should_hide && self.opacity < 0.05 (overlay.rs:118-127): both are set by
\* the overlay's timers and fade animation over earlier frames, which touch
\* no shared state.  With Status == Result and the overlay faded the store
\* of line 128 follows; with Status == Recording the frame draws
\* draw_recording; every other frame reads shared state no further.
UiUpdate(faded) ==
    /\ ui_pc = "read"
    /\ ui_pc' = IF status = STATUS_RESULT /\ faded THEN "fade"
               ELSE IF status = STATUS_RECORDING THEN "draw_rec"
               ELSE "read"
    /\ status \in {STATUS_RESULT, STATUS_RECORDING}
    /\ UNCHANGED <<shared, hvars, tvars, avars, svars, stop_req>>
    /\ ui_stale' = FALSE
    /\ wants' = [wants EXCEPT ![Ui] =
                    IF status = STATUS_RECORDING THEN SharedWaveform ELSE NoLock]
    /\ UNCHANGED <<paste_err, delivered, dvars, fvars, stream_errors, follow_stop,
                   latest, stale_req, last_text, owner>>

\* Transition result -> idle when faded (overlay.rs:127-129)
UiFadeStore ==
    /\ ui_pc = "fade"
    /\ status' = STATUS_IDLE
    /\ ui_pc' = "read"
    /\ stop_req' = FALSE
    /\ UNCHANGED <<waveform, stop_signal, last_result, hvars, tvars, avars, svars>>
    /\ UNCHANGED xvars

\* UiLockWaveform with a seeded fault: with the shared waveform locked the
\* overlay also asks for the sink of session 1.
UiLockWaveform_AlsoSink ==
    /\ ui_pc = "draw_rec"
    /\ owner[SharedWaveform] = NoThread
    /\ ui_pc' = "rec_locked"
    /\ owner' = [owner EXCEPT ![SharedWaveform] = Ui]
    /\ wants' = [wants EXCEPT ![Ui] = Sink(1)]
    /\ UNCHANGED <<shared, hvars, tvars, avars, svars, stop_req>>
    /\ UNCHANGED <<paste_err, delivered, dvars, fvars, yvars>>

\* draw_recording: let samples = state.waveform.lock() (overlay.rs:312)
UiLockWaveform ==
    /\ ui_pc = "draw_rec"
    /\ owner[SharedWaveform] = NoThread
    /\ ui_pc' = "rec_locked"
    /\ owner' = [owner EXCEPT ![SharedWaveform] = Ui]
    /\ wants' = [wants EXCEPT ![Ui] = NoLock]
    /\ UNCHANGED <<shared, hvars, tvars, avars, svars, stop_req>>
    /\ UNCHANGED <<paste_err, delivered, dvars, fvars, yvars>>

\* the Stop button (overlay.rs:375-377), then the lock guard is dropped
UiDrawRecording(clicked) ==
    /\ ui_pc = "rec_locked"
    /\ stop_signal' = (stop_signal \/ clicked)
    /\ ui_pc' = "read"
    /\ stop_req' = IF clicked /\ status = STATUS_RECORDING THEN TRUE ELSE stop_req
    /\ UNCHANGED <<status, waveform, last_result, hvars, tvars, avars, svars>>
    /\ stale_req' = IF ~clicked \/ ~follow_stop THEN stale_req
                    ELSE IF ~ui_stale THEN FALSE
                    ELSE IF stop_signal THEN stale_req
                    ELSE TRUE
    /\ ui_stale' = FALSE
    /\ owner' = [owner EXCEPT ![SharedWaveform] = NoThread]
    /\ UNCHANGED <<paste_err, delivered, dvars, fvars, stream_errors, follow_stop,
                   latest, last_text, wants>>

\* ------------------------------------------------------------ Next
Next ==
    \/ \E pressed \in BOOLEAN, elapsed \in BOOLEAN : HotkeyPoll(pressed, elapsed)
    \/ HotkeyIgnore
    \/ HotkeyStart
    \/ HotkeyClearStop
    \/ HotkeySpawn
    \/ HotkeyRequestStop
    \/ \E s \in Sessions : SessionSpawnHelpers(s)
    \/ \E s \in Sessions, cfg \in NativeConfigs : CaptureOpen(s, cfg)
    \/ \E s \in Sessions : CaptureFail(s)
    \/ \E s \in Sessions : CapturePoll(s)
    \/ \E s \in Sessions : CaptureStop(s)
    \/ \E s \in Sessions : SessionEmpty(s)
    \/ \E s \in Sessions : SessionTranscribing(s)
    \/ \E s \in Sessions : TranscribeErr(s)
    \/ \E s \in Sessions : TranscribeEmpty(s)
    \/ \E s \in Sessions, t \in Texts : TranscribeText(s, t)
    \/ \E s \in Sessions, ok \in BOOLEAN : SessionPaste(s, ok)
    \/ \E s \in Sessions : SessionResult(s)
    \/ \E s \in Sessions : CallbackDeliver(s, s)
    \/ \E s \in Sessions : CallbackFeed(s)
    \/ \E s \in Sessions : BroadcasterCheck(s)
    \/ \E s \in Sessions : BroadcasterCopy(s)
    \/ \E s \in Sessions : WatcherStop(s)
    \/ \E f \in BOOLEAN : UiUpdate(f)
    \/ UiFadeStore
    \/ UiLockWaveform
    \/ \E c \in BOOLEAN : UiDrawRecording(c)

Spec == Init /\ [][Next]_vars

\* ------------------------------------------------------------ fairness
\* Every thread that can take a step eventually takes one, and a thread
\* waiting for a mutex eventually gets it (strong fairness of the steps that
\* take the sink's or the shared waveform's lock).  Key presses, clicks on
\* the Stop button and the arrival of audio batches are the environment's and
\* are not forced.
HotkeyHandler ==
    HotkeyIgnore \/ HotkeyStart \/ HotkeyClearStop \/ HotkeySpawn \/ HotkeyRequestStop

SessionStep(s) ==
    \/ SessionSpawnHelpers(s)
    \/ \E cfg \in NativeConfigs : CaptureOpen(s, cfg)
    \/ CaptureFail(s)
    \/ CapturePoll(s)
    \/ CaptureStop(s)
    \/ SessionEmpty(s)
    \/ SessionTranscribing(s)
    \/ TranscribeErr(s)
    \/ TranscribeEmpty(s)
    \/ \E t \in Texts : TranscribeText(s, t)
    \/ \E ok \in BOOLEAN : SessionPaste(s, ok)
    \/ SessionResult(s)

BroadcasterStep(s) == BroadcasterCheck(s) \/ BroadcasterCopy(s)

UiStep ==
    \/ \E f \in BOOLEAN : UiUpdate(f)
    \/ UiFadeStore
    \/ UiLockWaveform
    \/ \E c \in BOOLEAN : UiDrawRecording(c)

Fairness ==
    /\ WF_vars(HotkeyHandler)
    /\ SF_vars(HotkeySpawn)
    /\ WF_vars(UiStep)
    /\ \A s \in Sessions :
          /\ WF_vars(SessionStep(s))
          /\ WF_vars(BroadcasterStep(s))
          /\ SF_vars(BroadcasterCopy(s))
          /\ WF_vars(WatcherStop(s))
          /\ SF_vars(CallbackFeed(s))

FairSpec == Init /\ [][Next]_vars /\ Fairness

\* ------------------------------------------------------------ one capture and its buffers
\* Session 1 is capturing and a toggle that read Recording has just been
\* accepted; the device's native configuration is any of NativeConfigs.
CaptureInit ==
    /\ status = STATUS_RECORDING
    /\ waveform = <<>>
    /\ stop_signal = FALSE
    /\ last_result = ""
    /\ h_pc = "dispatch"
    /\ hotkey_held = TRUE
    /\ h_status = STATUS_RECORDING
    /\ spc = [s \in Sessions |-> IF s = 1 THEN "capturing" ELSE "none"]
    /\ bpc = [s \in Sessions |-> IF s = 1 THEN "check" ELSE "none"]
    /\ wpc = [s \in Sessions |-> IF s = 1 THEN "poll" ELSE "none"]
    /\ stop = [s \in Sessions |-> FALSE]
    /\ stream = [s \in Sessions |-> s = 1]
    /\ \E cfg \in NativeConfigs :
          native = [s \in Sessions |-> IF s = 1 THEN cfg ELSE NoConfig]
    /\ samples = [s \in Sessions |-> <<>>]
    /\ wf = [s \in Sessions |-> <<>>]
    /\ cb = [s \in Sessions |-> <<>>]
    /\ text = [s \in Sessions |-> ""]
    /\ stores = [s \in Sessions |-> <<>>]
    /\ transcribe_calls = [s \in Sessions |-> 0]
    /\ paste_calls = [s \in Sessions |-> <<>>]
    /\ result_writes = [s \in Sessions |-> <<>>]
    /\ outcome = [s \in Sessions |-> "none"]
    /\ ui_pc = "read"
    /\ stop_req = FALSE
    /\ paste_err = [s \in Sessions |-> FALSE]
    /\ delivered = [s \in Sessions |-> 0]
    /\ ClockInit
    /\ TraceInit
    /\ LockInit
    /\ FnIdle
    /\ follow_stop = FALSE

BatchFrames == {SmallBatch, LargeBatch}

\* the interleaved frames of a batch: frame j of the capture carries the
\* value j on each of its channels
Frames(base, n, channels) ==
    [i \in 1..(n * channels) |-> base + ((i - 1) \div channels) + 1]

\* the stream reports an error to its error callback, which prints it
\* (audio.rs:60) and touches nothing else
CallbackError(s) ==
    /\ stream[s]
    /\ stream_errors[s] < MaxErrors
    /\ stream_errors' = [stream_errors EXCEPT ![s] = @ + 1]
    /\ UNCHANGED <<shared, hvars, spc, bpc, wpc, avars, svars, uvars, stop_req>>
    /\ UNCHANGED <<paste_err, delivered, dvars, fvars, follow_stop, lvars, ui_stale,
                   stale_req, latest, last_text>>

\* the device hands the callback a batch of n frames (audio.rs:39)
CallbackStream(s, n) ==
    /\ delivered[s] + n <= MaxCaptured
    /\ CallbackBatch(s, Frames(delivered[s], n, native[s].channels))

CaptureNext ==
    \/ \E s \in Sessions, n \in BatchFrames : CallbackStream(s, n)
    \/ \E s \in Sessions : CallbackFeed(s)
    \/ \E s \in Sessions : CallbackError(s)
    \/ \E s \in Sessions : BroadcasterCheck(s)
    \/ \E s \in Sessions : BroadcasterCopy(s)
    \/ HotkeyRequestStop
    \/ \E s \in Sessions : WatcherStop(s)
    \/ \E s \in Sessions : CapturePoll(s)
    \/ \E s \in Sessions : CaptureStop(s)

CaptureSpec == CaptureInit /\ [][CaptureNext]_vars

\* ------------------------------------------------------------ the audio functions
\* resample and samples_to_wav applied to one input: short sequences over
\* the amplitudes -2.0, -0.5, 0, 0.5, 2.0 and two longer ones, at every pair
\* of the rates below.
Amps == {-2 * AmpUnit, -1, 0, 1, 2 * AmpUnit}

Rates == {8000, TARGET_SAMPLE_RATE, 22050, 44100, 48000}

FnInputs ==
    UNION {[1..k -> Amps] : k \in 0..MaxLen}
        \cup {[i \in 1..n |-> 1] : n \in {ExactLen, ScenarioLen}}

FnInit ==
    /\ AppInit
    /\ f_in \in FnInputs
    /\ f_from \in Rates
    /\ f_to \in Rates
    /\ f_out = <<>>
    /\ f_wav = <<>>
    /\ f_pc = "input"
    /\ follow_stop = FALSE

\* resample(&raw, from_rate, to_rate) (audio.rs:79)
FnResample ==
    /\ f_pc = "input"
    /\ f_out' = resample(f_in, f_from, f_to)
    /\ f_pc' = "resampled"
    /\ UNCHANGED <<shared, hvars, tvars, avars, svars, uvars, stop_req,
                   paste_err, delivered, dvars, yvars, lvars, f_in, f_from, f_to, f_wav>>

\* audio::samples_to_wav(&samples) (main.rs:197)
FnEncode ==
    /\ f_pc = "resampled"
    /\ f_wav' = samples_to_wav(f_out)
    /\ f_pc' = "encoded"
    /\ UNCHANGED <<shared, hvars, tvars, avars, svars, uvars, stop_req,
                   paste_err, delivered, dvars, yvars, lvars, f_in, f_from, f_to, f_out>>

FnNext == FnResample \/ FnEncode

FnSpec == FnInit /\ [][FnNext]_vars

\* ------------------------------------------------------------ the stop requests
\* The threads that set, clear and read the stop flags, with the history of
\* the stop requests kept: the hotkey loop, the overlay, and the sessions up to
\* the end of their capture.  The device delivers no audio here, so a session
\* ends with a device error or an empty capture.
StopInit == AppInit /\ FnIdle /\ follow_stop = TRUE

StopNext ==
    \/ \E pressed \in BOOLEAN, elapsed \in BOOLEAN : HotkeyPoll(pressed, elapsed)
    \/ HotkeyStart
    \/ HotkeyClearStop
    \/ HotkeySpawn
    \/ HotkeyRequestStop
    \/ \E s \in Sessions : SessionSpawnHelpers(s)
    \/ \E s \in Sessions, cfg \in NativeConfigs : CaptureOpen(s, cfg)
    \/ \E s \in Sessions : CaptureFail(s)
    \/ \E s \in Sessions : CapturePoll(s)
    \/ \E s \in Sessions : CaptureStop(s)
    \/ \E s \in Sessions : SessionEmpty(s)
    \/ \E s \in Sessions : BroadcasterCheck(s)
    \/ \E s \in Sessions : BroadcasterCopy(s)
    \/ \E s \in Sessions : WatcherStop(s)
    \/ \E f \in BOOLEAN : UiUpdate(f)
    \/ UiLockWaveform
    \/ \E c \in BOOLEAN : UiDrawRecording(c)

StopSpec == StopInit /\ [][StopNext]_vars

\* The program from the end of a session that was stopped, transcribed to
\* "hello world", pasted it and stored Result, with the return of a
\* transcription and the store of its text as separate steps and two
\* transcripts that differ.  The broadcasters are not scheduled, so the slot
\* of a session is not taken again.
ResultTexts == {"hello world", "hello again"}

ResultInit ==
    /\ status = STATUS_RESULT
    /\ waveform = <<>>
    /\ stop_signal = TRUE
    /\ last_result = "hello world"
    /\ h_pc = "poll"
    /\ hotkey_held = FALSE
    /\ h_status = STATUS_IDLE
    /\ spc = [s \in Sessions |-> IF s = 1 THEN "done" ELSE "none"]
    /\ bpc = [s \in Sessions |-> IF s = 1 THEN "done" ELSE "none"]
    /\ wpc = [s \in Sessions |-> IF s = 1 THEN "done" ELSE "none"]
    /\ stop = [s \in Sessions |-> s = 1]
    /\ stream = [s \in Sessions |-> FALSE]
    /\ native = [s \in Sessions |-> NoConfig]
    /\ samples = [s \in Sessions |-> <<>>]
    /\ wf = [s \in Sessions |-> <<>>]
    /\ cb = [s \in Sessions |-> <<>>]
    /\ text = [s \in Sessions |-> IF s = 1 THEN "hello world" ELSE ""]
    /\ stores = [s \in Sessions |->
                   IF s = 1 THEN <<STATUS_TRANSCRIBING, STATUS_RESULT>> ELSE <<>>]
    /\ transcribe_calls = [s \in Sessions |-> IF s = 1 THEN 1 ELSE 0]
    /\ paste_calls = [s \in Sessions |-> IF s = 1 THEN <<"hello world">> ELSE <<>>]
    /\ result_writes = [s \in Sessions |-> IF s = 1 THEN <<"hello world">> ELSE <<>>]
    /\ outcome = [s \in Sessions |-> IF s = 1 THEN "text" ELSE "none"]
    /\ ui_pc = "read"
    /\ stop_req = FALSE
    /\ paste_err = [s \in Sessions |-> FALSE]
    /\ delivered = [s \in Sessions |-> 0]
    /\ ClockInit
    /\ stream_errors = [s \in Sessions |-> 0]
    /\ ui_stale = FALSE
    /\ stale_req = FALSE
    /\ latest = 0
    /\ last_text = "hello world"
    /\ LockInit
    /\ FnIdle
    /\ follow_stop = FALSE

ResultNext ==
    \/ \E pressed \in BOOLEAN, elapsed \in BOOLEAN : HotkeyPoll(pressed, elapsed)
    \/ HotkeyIgnore
    \/ HotkeyStart
    \/ HotkeyClearStop
    \/ HotkeySpawn
    \/ HotkeyRequestStop
    \/ \E s \in Sessions : SessionSpawnHelpers(s)
    \/ \E s \in Sessions, cfg \in NativeConfigs : CaptureOpen(s, cfg)
    \/ \E s \in Sessions : CaptureFail(s)
    \/ \E s \in Sessions : CapturePoll(s)
    \/ \E s \in Sessions : CaptureStop(s)
    \/ \E s \in Sessions : SessionEmpty(s)
    \/ \E s \in Sessions : SessionTranscribing(s)
    \/ \E s \in Sessions : TranscribeErr(s)
    \/ \E s \in Sessions : TranscribeEmpty(s)
    \/ \E s \in Sessions, t \in ResultTexts : TranscribeReturn(s, t)
    \/ \E s \in Sessions : SessionStoreText(s)
    \/ \E s \in Sessions, ok \in BOOLEAN : SessionPaste(s, ok)
    \/ \E s \in Sessions : SessionResult(s)
    \/ \E s \in Sessions : CallbackDeliver(s, s)
    \/ \E s \in Sessions : CallbackFeed(s)
    \/ \E s \in Sessions : WatcherStop(s)
    \/ \E f \in BOOLEAN : UiUpdate(f)
    \/ UiFadeStore
    \/ UiLockWaveform
    \/ \E c \in BOOLEAN : UiDrawRecording(c)

ResultSpec == ResultInit /\ [][ResultNext]_vars

\* ------------------------------------------------------------ the hotkey loop on its clock
\* hotkey_loop alone, with time: the session threads it spawns are not
\* scheduled, so after the first toggle Status stays Recording.
DebounceNext ==
    \/ \E pressed \in BOOLEAN, dt \in TickLengths : HotkeyTick(pressed, dt)
    \/ HotkeyStart
    \/ HotkeyClearStop
    \/ HotkeySpawn
    \/ HotkeyRequestStop

DebounceSpec == Init /\ [][DebounceNext]_vars

\* ------------------------------------------------------------ properties
\* a session-orchestration thread is alive from its spawn until it has made
\* its final Status store
Alive(s) == spc[s] \notin {"none", "done"}

\* the hotkey thread takes a step of its toggle handler
HotkeyMoves == h_pc' # h_pc

\* the sessions whose session-orchestration thread this step spawns
Spawned == {s \in Sessions : spc[s] \in {"none", "done"} /\ spc'[s] = "spawned"}

\* C1: at most one session-orchestration thread is alive at any time, under
\* every interleaving of hotkey toggles, session threads and the overlay's
\* update step.
C1_OneSessionAlive == Cardinality({s \in Sessions : Alive(s)}) <= 1

\* C2: an accepted toggle that read Idle or Result stores Recording, goes
\* on to clear the stop flag and the waveform, and spawns exactly one session
\* thread; the steps are the same whether it read Idle or Result, and no other
\* step spawns a session thread.
C2_StartToggle ==
    [][ /\ (h_pc = "dispatch" /\ h_status \in {STATUS_IDLE, STATUS_RESULT} /\ HotkeyMoves)
            => (status' = STATUS_RECORDING /\ h_pc' = "clear_stop" /\ Spawned = {})
        /\ (h_pc = "clear_stop" /\ HotkeyMoves)
            => (h_pc' = "clear_wf" /\ status' = status /\ Spawned = {})
        /\ (h_pc = "clear_wf" /\ HotkeyMoves)
            => (h_pc' = "poll" /\ status' = status /\ Cardinality(Spawned) = 1)
        /\ (h_pc # "clear_wf" => Spawned = {})
      ]_vars

\* C2 witness: a toggle that read Result has stored Recording
C2_Witness == h_pc = "clear_stop" /\ h_status = STATUS_RESULT /\ status = STATUS_RECORDING

\* C3: an accepted toggle that read Recording sets the stop-request flag and
\* changes nothing else: Status, the waveform buffer, the last result and every
\* thread are as before.
C3_StopToggleFrame ==
    [][ (h_pc = "dispatch" /\ h_status = STATUS_RECORDING /\ HotkeyMoves)
            => /\ stop_signal' = TRUE
               /\ UNCHANGED <<status, waveform, last_result, tvars, avars, svars>>
      ]_vars

\* C3 witness: a toggle has read Recording while no stop is requested yet
C3_Witness ==
    /\ h_pc = "dispatch" /\ h_status = STATUS_RECORDING
    /\ status = STATUS_RECORDING /\ ~stop_signal

\* C4: an accepted toggle that read Transcribing changes no shared field and
\* spawns no thread.
C4_IgnoreToggleFrame ==
    [][ (h_pc = "dispatch" /\ h_status = STATUS_TRANSCRIBING /\ HotkeyMoves)
            => UNCHANGED <<status, stop_signal, waveform, last_result, tvars, avars, svars>>
      ]_vars

\* C4 witness: a toggle has read Transcribing while a session transcribes
C4_Witness ==
    /\ h_pc = "dispatch" /\ h_status = STATUS_TRANSCRIBING
    /\ \E s \in Sessions : spc[s] = "transcribing"

\* C5: a stop request made while Status == Recording is never lost: under
\* fair scheduling Status eventually leaves Recording.
C5_StopRequestServed == stop_req ~> (status # STATUS_RECORDING)

C7_EmptyText ==
    \A s \in Sessions : outcome[s] = "empty_text" =>
        /\ spc[s] = "done"
        /\ stores[s] = <<STATUS_TRANSCRIBING, STATUS_IDLE>>
        /\ paste_calls[s] = <<>>
        /\ result_writes[s] = <<>>

\* C7 witness: a session has ended on an empty transcription
C7_Witness == \E s \in Sessions : outcome[s] = "empty_text" /\ status = STATUS_IDLE

\* C8: a session whose capture returned no samples stores Idle and ends; it
\* never stores Transcribing and calls neither transcription nor paste.
C8_EmptyCapture ==
    /\ \A s \in Sessions : outcome[s] = "empty_capture" =>
        /\ spc[s] = "done"
        /\ stores[s] = <<STATUS_IDLE>>
        /\ transcribe_calls[s] = 0
        /\ paste_calls[s] = <<>>
    /\ \A s \in Sessions : (spc[s] = "captured" /\ samples[s] = <<>>) =>
        (stores[s] = <<>> /\ transcribe_calls[s] = 0)

\* C8 witness: a capture that did receive audio returned nothing (48 kHz
\* resampled to nothing) and the session ended in Idle
C8_Witness ==
    \E s \in Sessions : outcome[s] = "empty_capture" /\ wf[s] # <<>> /\ status = STATUS_IDLE

\* C9: a session calls the transcription service at most once; when the
\* call fails the session stores Idle, does not call again, does not paste and
\* does not write last_result.
C9_TranscribeOnce ==
    \A s \in Sessions :
        /\ transcribe_calls[s] <= 1
        /\ outcome[s] = "transcribe_error" =>
              /\ spc[s] = "done"
              /\ transcribe_calls[s] = 1
              /\ stores[s] = <<STATUS_TRANSCRIBING, STATUS_IDLE>>
              /\ paste_calls[s] = <<>>
              /\ result_writes[s] = <<>>

\* C9 witness: a session has ended on a failed transcription
C9_Witness == \E s \in Sessions : outcome[s] = "transcribe_error" /\ status = STATUS_IDLE

\* C10: after a device error no thread of that session was spawned and no
\* artifact of it is left: no broadcaster, no stop watcher, no open stream, and
\* the session has stored Idle.
C10_DeviceErrorLeavesNothing ==
    \A s \in Sessions : outcome[s] = "device_error" =>
        /\ stores[s] = <<STATUS_IDLE>>
        /\ bpc[s] = "none"
        /\ wpc[s] = "none"
        /\ ~stream[s]

\* C11: a paste error does not change the session's outcome: a session
\* whose paste call failed has stored its non-empty text in last_result and goes
\* on to store Result, exactly as after a successful paste.
C11_PasteErrorIgnored ==
    \A s \in Sessions : paste_err[s] =>
        /\ outcome[s] = "text"
        /\ text[s] # ""
        /\ result_writes[s] = <<text[s]>>
        /\ last_result = text[s]
        /\ spc[s] \in {"set_result", "done"}
        /\ spc[s] = "done" => stores[s] = <<STATUS_TRANSCRIBING, STATUS_RESULT>>

\* C11 witness: a session whose paste failed has ended in Result
C11_Witness ==
    \E s \in Sessions :
        /\ paste_err[s] /\ spc[s] = "done"
        /\ status = STATUS_RESULT /\ last_result = "hello world"

\* C20: a session's stream is released before the session stores
\* Transcribing and before resampling or transcription; no two streams are open
\* at once.
C20_StreamReleased ==
    /\ \A s \in Sessions :
          spc[s] \in {"captured", "transcribing", "paste", "set_result", "done"} => ~stream[s]
    /\ Cardinality({s \in Sessions : stream[s]}) <= 1

\* C12: a toggle is accepted only on a poll tick where the key combination
\* is newly pressed: it was not pressed on the previous poll tick.
C12_EdgeOnly == h_pc = "dispatch" => ~key_prev

\* poll ticks of 30 ms that fit into the debounce window, rounded up
DebounceTicks == (DEBOUNCE_MS + POLL_MS - 1) \div POLL_MS

\* C13 as stated: two consecutive accepted toggles are at least 500 ms and
\* at least the corresponding number of 30 ms poll ticks apart.
C13_GapAndTicks ==
    (h_pc = "dispatch" /\ n_toggles >= 2) =>
        /\ last_toggle - prev_toggle >= DEBOUNCE_MS
        /\ tick_gap >= DebounceTicks

\* C13: two consecutive accepted toggles are more than 500 ms apart on the
\* loop's clock, and at least one poll tick apart.
C13_ToggleGap ==
    (h_pc = "dispatch" /\ n_toggles >= 2) =>
        /\ last_toggle - prev_toggle > DEBOUNCE_MS
        /\ tick_gap >= 1

\* C13 witness: the second toggle is accepted on the first tick after the
\* window, two ticks after the first toggle
C13_Witness ==
    /\ h_pc = "dispatch" /\ n_toggles = 2
    /\ last_toggle - prev_toggle = SlowTick + POLL_MS
    /\ tick_gap = 2

\* the n most recent of the values 1..n, at most a window's worth
Recent(n) ==
    LET k == IF n < WAVEFORM_SIZE THEN n ELSE WAVEFORM_SIZE
    IN [i \in 1..k |-> n - k + i]

\* C14: after every audio callback the capture's waveform sink holds the
\* most recent samples, at most 2048 of them, and the shared waveform buffer
\* never holds more than 2048 samples.
C14_WaveformWindow ==
    /\ Len(waveform) <= WAVEFORM_SIZE
    /\ \A s \in Sessions :
          /\ Len(wf[s]) <= WAVEFORM_SIZE
          /\ (stream[s] /\ cb[s] = <<>>) => wf[s] = Recent(delivered[s])

\* C14 witness: the sink has been trimmed and copied to the shared buffer
C14_Witness ==
    /\ delivered[1] > WAVEFORM_SIZE /\ stream[1] /\ cb[1] = <<>>
    /\ Len(wf[1]) = WAVEFORM_SIZE /\ wf[1][1] > 1
    /\ waveform = wf[1]

\* C15: the full-resolution buffer holds every mono sample the callback
\* produced, in delivery order, and that is the buffer the capture resamples
\* and returns.
C15_FullBuffer ==
    /\ [](\A s \in Sessions : spc[s] \in {"capturing", "stopping"} =>
              samples[s] = [i \in 1..delivered[s] |-> i])
    /\ [][\A s \in Sessions : (spc[s] = "stopping" /\ spc'[s] = "captured") =>
              samples'[s] = Captured([i \in 1..delivered[s] |-> i], native[s])]_vars

\* C15 witness: a capture that received more than a window's worth of
\* samples is about to return
C15_Witness ==
    /\ spc[1] = "stopping" /\ cb[1] = <<>>
    /\ delivered[1] > WAVEFORM_SIZE /\ Len(samples[1]) = delivered[1]

\* C16: resample returns its input unchanged when the input is empty or
\* the two rates are equal.
C16_ResampleIdentity ==
    (f_pc # "input" /\ (f_in = <<>> \/ f_from = f_to)) => f_out = f_in

\* C16 witness: a two-sample input has been resampled at equal rates
C16_Witness ==
    /\ f_pc = "resampled" /\ f_from = f_to
    /\ Len(f_in) = 2 /\ f_in[1] # f_in[2] /\ f_out = f_in

\* C17 as stated: for a non-empty input and distinct rates the output
\* length equals floor(len * target_rate / source_rate).
C17_FloorLength ==
    (f_pc # "input" /\ f_in # <<>> /\ f_from # f_to) =>
        Len(f_out) = (Len(f_in) * f_to) \div f_from

\* C17: for a non-empty input and distinct rates the output length is
\* floor(len * target_rate / source_rate) or one less, so it differs from
\* len * target_rate / source_rate by at most 1; 900 samples at 48000 Hz yield
\* 300 at 16000 Hz.
C17_LengthWithinOne ==
    (f_pc # "input" /\ f_in # <<>> /\ f_from # f_to) =>
        LET floor == (Len(f_in) * f_to) \div f_from
            diff == Len(f_out) * f_from - Len(f_in) * f_to
        IN /\ Len(f_out) \in {floor - 1, floor}
           /\ -f_from <= diff /\ diff <= f_from
           /\ (Len(f_in) = 900 /\ f_from = 48000 /\ f_to = TARGET_SAMPLE_RATE)
                 => Len(f_out) = 300

\* C17 witness: 480 samples of 48000 Hz have been resampled to 44100 Hz
\* and are 440, one less than 480 * 44100 / 48000 = 441
C17_Witness ==
    /\ f_pc = "resampled" /\ Len(f_in) = 480 /\ f_from = 48000 /\ f_to = 44100
    /\ Len(f_out) = 440

\* C18: the WAV file made of N samples reads back as N samples, 1 channel,
\* 16000 Hz; it begins with a RIFF/WAVE header and is at least 44 bytes long,
\* also for N = 0.
C18_WavRoundTrip ==
    f_pc = "encoded" =>
        LET r == WavRead(f_wav)
        IN /\ Len(f_wav) >= 44
           /\ SubSeq(f_wav, 1, 4) = RIFF /\ SubSeq(f_wav, 9, 12) = WAVE
           /\ r.valid
           /\ r.len = Len(f_out)
           /\ r.channels = 1
           /\ r.sample_rate = TARGET_SAMPLE_RATE

\* C18 witness: 300 samples have been encoded and read back
C18_Witness ==
    /\ f_pc = "encoded" /\ Len(f_out) = 300
    /\ WavRead(f_wav).len = 300 /\ Len(f_wav) = 644

\* C19: every sample is encoded as the sample times 32767, clamped to
\* -32768..32767 and truncated; 2.0 encodes to 32767 and -2.0 to -32768, and
\* the file stays a valid RIFF/WAVE file.
C19_WavClamps ==
    f_pc = "encoded" =>
        LET r == WavRead(f_wav)
        IN /\ r.valid /\ r.len = Len(f_out)
           /\ \A i \in 1..Len(f_out) :
                 LET a == f_out[i]
                     v == r.samples[i]
                 IN /\ I16_MIN <= v /\ v <= I16_MAX
                    /\ a = 2 * AmpUnit => v = 32767
                    /\ a = -2 * AmpUnit => v = -32768
                    /\ a * I16_MAX >= I16_MAX * AmpUnit => v = I16_MAX
                    /\ a * I16_MAX <= I16_MIN * AmpUnit => v = I16_MIN
                    /\ (a * I16_MAX < I16_MAX * AmpUnit /\ a * I16_MAX > I16_MIN * AmpUnit)
                          => /\ a * I16_MAX - AmpUnit < v * AmpUnit
                             /\ v * AmpUnit < a * I16_MAX + AmpUnit
                             /\ (a >= 0 => v * AmpUnit <= a * I16_MAX)
                             /\ (a <= 0 => v * AmpUnit >= a * I16_MAX)

\* C19 witness: 2.0 and -2.0 have been encoded
C19_Witness ==
    /\ f_pc = "encoded" /\ f_out = <<2 * AmpUnit, -2 * AmpUnit>>
    /\ WavRead(f_wav).samples = <<32767, -32768>>

\* the overlay holds the shared waveform's mutex from overlay.rs:312 to the
\* end of draw_recording
WaveformLocked == ui_pc = "rec_locked"

\* C21: the hotkey thread never waits for another thread: wherever it is in
\* its toggle handler, it can take its next step at once.
C21_HotkeyNeverWaits == h_pc # "poll" => ENABLED HotkeyHandler

\* the overlay thread takes a step of OverlayApp::update
UiMoves == ui_pc' # ui_pc

\* C22: the overlay never writes Status, the shared waveform or last_result:
\* a step of the overlay thread leaves the three unchanged.
C22_UiWritesStopOnly ==
    [][UiMoves => UNCHANGED <<status, waveform, last_result>>]_vars

\* C23: a start toggle clears the stop flag and the shared waveform before
\* it stores Recording: in the state in which Status has just become Recording
\* the stop flag is false and the shared waveform is empty.
C23_ClearedBeforeRecording ==
    [][(status # STATUS_RECORDING /\ status' = STATUS_RECORDING)
          => (~stop_signal' /\ waveform' = <<>>)]_vars

\* session s is recording: its thread is alive and has stored no Status yet
OwnRecording(s) == Alive(s) /\ stores[s] = <<>>

\* C24: a broadcaster copies only while its own session is recording, and
\* each copy replaces the shared waveform by the content of its session's sink.
C24_BroadcasterOwnSession ==
    [][\A s \in Sessions :
          (bpc[s] = "lock_dst" /\ bpc'[s] = "check") =>
              /\ OwnRecording(s)
              /\ waveform' = wf[s]]_vars

\* C26: once a session's thread has returned, its broadcaster and its stop
\* watcher eventually terminate too.
C26_ThreadsTerminate ==
    \A s \in Sessions : (spc[s] = "done") ~> Ended(s)

\* the broadcaster holds its session's sink from main.rs:165 until it has
\* copied
SinkLocked(s) == bpc[s] = "lock_dst"

\* the audio callback has a batch to feed and waits for the sink's mutex
\* (audio.rs:52)
CallbackWaits(s) == cb[s] # <<>> /\ SinkLocked(s)

\* C27: the audio callback never waits for the sink while the sink's holder
\* waits for the shared waveform held by the overlay.
C27_CallbackNotDelayed ==
    \A s \in Sessions : ~(CallbackWaits(s) /\ WaveformLocked)

\* C28: Status changes only from Idle or Result to Recording, from
\* Recording to Transcribing or Idle, from Transcribing to Idle or Result, and
\* from Result to Idle.
C28_StatusEdges ==
    [][status' # status =>
          <<status, status'>> \in
              {<<STATUS_IDLE, STATUS_RECORDING>>, <<STATUS_RESULT, STATUS_RECORDING>>,
               <<STATUS_RECORDING, STATUS_TRANSCRIBING>>, <<STATUS_RECORDING, STATUS_IDLE>>,
               <<STATUS_TRANSCRIBING, STATUS_IDLE>>, <<STATUS_TRANSCRIBING, STATUS_RESULT>>,
               <<STATUS_RESULT, STATUS_IDLE>>}]_vars

\* C29: a session's capture-local stop flag is set only on a stop request
\* that was decided after the latest start toggle: never on a click made in a
\* frame of the overlay that loaded Status while an earlier session was
\* recording.
C29_NoStaleStop ==
    [][\A s \in Sessions :
          (~stop[s] /\ stop'[s]) => (stop_signal /\ (s = latest => ~stale_req))]_vars

\* C25: a capture whose stream has started ends only by an explicit stop.  The
\* capture leaves its polling loop and releases its stream only with its local
\* stop flag true; the flag is set only by the session's stop watcher, in the
\* step in which it leaves its loop having observed the shared stop request;
\* a stream error reported to the error callback changes neither the stream,
\* nor the capture's position, nor the flag.
C25_ExplicitStopOnly ==
    [][\A s \in Sessions :
          /\ (spc[s] = "capturing" /\ spc'[s] # "capturing") => stop[s]
          /\ (stream[s] /\ ~stream'[s]) => stop[s]
          /\ (~stop[s] /\ stop'[s]) =>
                (stop_signal /\ wpc[s] = "poll" /\ wpc'[s] = "done")
          /\ (stream_errors'[s] # stream_errors[s]) =>
                (stream'[s] = stream[s] /\ spc'[s] = spc[s] /\ stop'[s] = stop[s])]_vars

\* a capture that reported stream errors, went on, and was ended by a stop request
C25_Witness ==
    /\ stream_errors[1] > 0
    /\ delivered[1] = 0 /\ samples[1] # <<>>
    /\ spc[1] = "captured" /\ ~stream[1] /\ stop[1] /\ wpc[1] = "done"

\* C30: whenever Status is Result, the last-result buffer is non-empty and
\* holds the text returned by the most recent successful transcription.
C30_ResultIsLatestText ==
    status = STATUS_RESULT => (last_result # "" /\ last_result = last_text)

\* the thread that holds the mutex thread t is waiting for
Holder(t) == IF wants[t] = NoLock THEN NoThread ELSE owner[wants[t]]

\* from t, following at most n times "waits for a mutex held by", one arrives at u
RECURSIVE WaitsOn(_, _, _)
WaitsOn(t, u, n) ==
    /\ n > 0
    /\ Holder(t) # NoThread
    /\ (Holder(t) = u \/ WaitsOn(Holder(t), u, n - 1))

\* C31: the hotkey thread, the audio callbacks, the broadcasters, the session
\* threads and the overlay never deadlock on the four kinds of mutex: in no
\* reachable state is there a cycle of threads each waiting for a mutex held
\* by the next (a thread waiting for a mutex it holds itself included).
C31_NoLockCycle == \A t \in Threads : ~WaitsOn(t, t, Cardinality(Threads))

\* the longest chain of waits: a callback waits for its sink, held by the
\* broadcaster, which waits for the shared waveform, held by the overlay,
\* for which the hotkey thread waits as well
C31_Witness ==
    \E s \in Sessions :
        /\ wants[Callback(s)] = Sink(s) /\ owner[Sink(s)] = Broadcaster(s)
        /\ wants[Broadcaster(s)] = SharedWaveform /\ owner[SharedWaveform] = Ui
        /\ wants[Hotkey] = SharedWaveform

====
